---------------------------- MODULE Spec2Model ----------------------------
(***************************************************************************)
(* A model of invoice_processor.py (class InvoiceProcessor): the record    *)
(* store kept in the two worksheets PO_Details and Invoice_Details, the    *)
(* derivation of tax and grand total, the classification of a text and the *)
(* batch loop over the files of the invoices folder.                       *)
(*                                                                         *)
(* A worksheet is modelled as the sequence of its data rows (the header    *)
(* row is not part of the sequence, so ws.max_row = Len(ws) + 1).  A       *)
(* Python dict is a function whose domain is the set of its keys.  Money   *)
(* is held in cents.                                                       *)
(***************************************************************************)
EXTENDS Integers, Sequences, FiniteSets, TLC

VARIABLES
    po_sheet,    \* self.workbook["PO_Details"], rows 2..max_row
    inv_sheet,   \* self.workbook["Invoice_Details"], rows 2..max_row
    last,        \* the last call made on the store: its name, argument and effect
    doc,         \* the amounts matched in one text and the fields made of them
    files,       \* the files of the invoices folder, in the order of the loop
    done,        \* the number of files process_all_files has processed
    outcome,     \* what process_file did with each processed file
    pc,          \* where process_all_files is
    excel_file,  \* the workbook as last saved to self.excel_file
    run          \* the number of the run of the program over the folder

vars ==
    <<po_sheet, inv_sheet, last, doc, files, done, outcome, pc, excel_file, run>>

store == <<po_sheet, inv_sheet, last>>
batch == <<files, done, outcome, pc, excel_file, run>>

(***************************************************************************)
(* Bounds of the model.                                                    *)
(***************************************************************************)
MaxPoRows == 2
MaxInvRows == 2
MaxAmountLen == 4
MaxLines == 3
MaxFiles == 2
MaxRuns == 2

(***************************************************************************)
(* Python values.                                                          *)
(***************************************************************************)
None == "<None>"

\* bool(v) of a string or None: the empty string and None are false.
Truthy(v) == v # "" /\ v # None

\* d.get(k, default)
Get(d, k, default) == IF k \in DOMAIN d THEN d[k] ELSE default

\* a or b, for strings and None
Or(a, b) == IF Truthy(a) THEN a ELSE b

(***************************************************************************)
(* Amounts.  An amount string is the sequence of its characters, as matched *)
(* by [0-9,]+\.?\d* ; an amount is a number of cents.  The amount strings   *)
(* of the model have at most two digits after the point, so that each is a  *)
(* whole number of cents.                                                   *)
(***************************************************************************)
DigitVal == ("0" :> 0) @@ ("1" :> 1) @@ ("2" :> 2) @@ ("3" :> 3) @@ ("4" :> 4)
            @@ ("5" :> 5) @@ ("6" :> 6) @@ ("7" :> 7) @@ ("8" :> 8) @@ ("9" :> 9)

Digits == DOMAIN DigitVal

\* int() of a sequence of digits; 0 for the empty sequence.
RECURSIVE NumVal(_)
NumVal(ds) ==
    IF ds = <<>> THEN 0
    ELSE 10 * NumVal(SubSeq(ds, 1, Len(ds) - 1)) + DigitVal[ds[Len(ds)]]

\* float() succeeds on cs: digits with at most one point and at least one digit.
IsFloat(cs) ==
    /\ \A i \in 1..Len(cs) : cs[i] \in Digits \cup {"."}
    /\ Cardinality({i \in 1..Len(cs) : cs[i] = "."}) <= 1
    /\ \E i \in 1..Len(cs) : cs[i] \in Digits

\* float(cs) in cents, for cs with at most two digits after the point.
FloatCents(cs) ==
    LET dots  == {i \in 1..Len(cs) : cs[i] = "."}
        dot   == IF dots = {} THEN Len(cs) + 1 ELSE CHOOSE i \in dots : TRUE
        whole == SubSeq(cs, 1, dot - 1)
        frac  == SubSeq(cs, dot + 1, Len(cs))
        cents == IF Len(frac) = 0 THEN 0
                 ELSE IF Len(frac) = 1 THEN 10 * DigitVal[frac[1]]
                 ELSE 10 * DigitVal[frac[1]] + DigitVal[frac[2]]
    IN  100 * NumVal(whole) + cents

\* A variant that does not strip the grouping commas: float() then fails on
\* every string with a comma.
parse_amount_keeps_commas(amount_str) ==
    IF IsFloat(amount_str) THEN FloatCents(amount_str) ELSE 0

\* _parse_amount: float(amount_str.replace(',', '')), 0.0 when that raises.
parse_amount(amount_str) ==
    LET stripped == SelectSeq(amount_str, LAMBDA c : c # ",")
    IN  IF IsFloat(stripped) THEN FloatCents(stripped) ELSE 0

\* round(num / den) to the nearest integer, a tie to the even one.
round_half_even(num, den) ==
    LET q == num \div den
        r == num % den
    IN  IF 2 * r > den \/ (2 * r = den /\ q % 2 = 1) THEN q + 1 ELSE q

\* The default tax rate, in percent.
TaxRatePercent == 12

\* A variant that cuts the tax to whole cents instead of rounding it.
derive_totals_truncating(data) ==
    LET d1 == IF "subtotal" \in DOMAIN data /\ "tax" \notin DOMAIN data
              THEN [tax |-> (TaxRatePercent * data.subtotal) \div 100] @@ data
              ELSE data
    IN  IF "subtotal" \in DOMAIN d1 /\ "grand_total" \notin DOMAIN d1
        THEN [grand_total |-> d1.subtotal + Get(d1, "tax", 0)] @@ d1
        ELSE d1

\* A variant that leaves the subtotal out of the grand total.
derive_totals_tax_only(data) ==
    LET d1 == IF "subtotal" \in DOMAIN data /\ "tax" \notin DOMAIN data
              THEN [tax |-> round_half_even(TaxRatePercent * data.subtotal, 100)] @@ data
              ELSE data
    IN  IF "subtotal" \in DOMAIN d1 /\ "grand_total" \notin DOMAIN d1
        THEN [grand_total |-> Get(d1, "tax", 0)] @@ d1
        ELSE d1

\* The end of parse_invoice_data: the tax is 12% of the subtotal when no tax
\* was matched, the grand total is subtotal + tax when none was matched.
\* round(subtotal * 0.12, 2) in cents is round(12 * subtotal / 100).
derive_totals(data) ==
    LET d1 == IF "subtotal" \in DOMAIN data /\ "tax" \notin DOMAIN data
              THEN [tax |-> round_half_even(TaxRatePercent * data.subtotal, 100)] @@ data
              ELSE data
    IN  IF "subtotal" \in DOMAIN d1 /\ "grand_total" \notin DOMAIN d1
        THEN [grand_total |-> d1.subtotal + Get(d1, "tax", 0)] @@ d1
        ELSE d1

AmountKeys == {"subtotal", "tax", "grand_total"}

\* The amounts of the matched strings: each match goes through _parse_amount.
convert_amounts(captures) ==
    [k \in DOMAIN captures \cap AmountKeys |-> parse_amount(captures[k])]

\* The amount strings of the model: what [0-9,]+\.?\d* can match, up to
\* MaxAmountLen characters, with at most two digits after the point.
AmountChars == {"0", "5", "9", ",", "."}

SeqsUpTo(S, n) == UNION {[1..k -> S] : k \in 0..n}

IsAmountString(cs) ==
    LET dots == {i \in 1..Len(cs) : cs[i] = "."}
        dot  == IF dots = {} THEN Len(cs) + 1 ELSE CHOOSE i \in dots : TRUE
    IN  /\ Cardinality(dots) <= 1
        /\ dot >= 2
        /\ \A i \in 1..(dot - 1) : cs[i] \in Digits \cup {","}
        /\ \A i \in (dot + 1)..Len(cs) : cs[i] \in Digits
        /\ Len(cs) - dot <= 2

AmountStrings == {cs \in SeqsUpTo(AmountChars, MaxAmountLen) : IsAmountString(cs)}

\* The strings the tax and grand total patterns match in the model.
OtherAmountStrings == {<<"1", "2">>, <<"5", "0", "0">>, <<",">>}

(***************************************************************************)
(* Dates.  A date string is held in its parts: the digits of the day, a     *)
(* separator, the month (an abbreviated name or digits), a separator and    *)
(* the digits of the year; this is the shape \d{1,2}[-/]\w+[-/]\d{2,4} that  *)
(* the date patterns match.                                                 *)
(***************************************************************************)
\* The string of a sequence of strings.
RECURSIVE Str(_)
Str(cs) == IF cs = <<>> THEN "" ELSE cs[1] \o Str(Tail(cs))

DigitChars == <<"0", "1", "2", "3", "4", "5", "6", "7", "8", "9">>

\* str(n) for n >= 0
RECURSIVE NumStr(_)
NumStr(n) ==
    IF n < 10 THEN DigitChars[n + 1]
    ELSE NumStr(n \div 10) \o DigitChars[(n % 10) + 1]

MonthAbbr == <<"Jan", "Feb", "Mar", "Apr", "May", "Jun",
               "Jul", "Aug", "Sep", "Oct", "Nov", "Dec">>

\* The letters of the abbreviated month names, in lower case.
MonthLetters ==
    <<<<"j", "a", "n">>, <<"f", "e", "b">>, <<"m", "a", "r">>, <<"a", "p", "r">>,
      <<"m", "a", "y">>, <<"j", "u", "n">>, <<"j", "u", "l">>, <<"a", "u", "g">>,
      <<"s", "e", "p">>, <<"o", "c", "t">>, <<"n", "o", "v">>, <<"d", "e", "c">>>>

\* str.upper() of a lower-case letter of a month name.
UpperLetter ==
    [c \in {"a", "b", "c", "d", "e", "f", "g", "j", "l", "m", "n", "o", "p",
            "r", "s", "t", "u", "v", "y"} |->
        CASE c = "a" -> "A" [] c = "b" -> "B" [] c = "c" -> "C" [] c = "d" -> "D"
          [] c = "e" -> "E" [] c = "f" -> "F" [] c = "g" -> "G" [] c = "j" -> "J"
          [] c = "l" -> "L" [] c = "m" -> "M" [] c = "n" -> "N" [] c = "o" -> "O"
          [] c = "p" -> "P" [] c = "r" -> "R" [] c = "s" -> "S" [] c = "t" -> "T"
          [] c = "u" -> "U" [] c = "v" -> "V" [] c = "y" -> "Y"]

\* The spellings of the abbreviated name of month k, each letter in either
\* case.
MonthSpellings(k) ==
    {x \o y \o z : x \in {MonthLetters[k][1], UpperLetter[MonthLetters[k][1]]},
                   y \in {MonthLetters[k][2], UpperLetter[MonthLetters[k][2]]},
                   z \in {MonthLetters[k][3], UpperLetter[MonthLetters[k][3]]}}

\* %b matches the abbreviated month names whatever the case of each letter:
\* the number of the month, or 0 when the name is no month's.
MonthOfName(name) ==
    LET hits == {k \in 1..12 : name \in MonthSpellings(k)}
    IN  IF hits = {} THEN 0 ELSE CHOOSE k \in hits : TRUE

IsLeap(y) == (y % 4 = 0 /\ y % 100 # 0) \/ y % 400 = 0

DaysIn(month, year) ==
    IF month = 2 THEN (IF IsLeap(year) THEN 29 ELSE 28)
    ELSE IF month \in {4, 6, 9, 11} THEN 30 ELSE 31

\* The date string as the text holds it.
DateStr(raw) ==
    Str(raw.d) \o raw.s1
    \o (IF "name" \in DOMAIN raw.m THEN raw.m.name ELSE Str(raw.m.num))
    \o raw.s2 \o Str(raw.y)

\* strptime(date_str, fmt) for the format with separator sep, month directive
\* %b (named) or %m, and year directive %y (2 digits) or %Y (4 digits): the
\* date as <<day, month, year>>, or <<>> for ValueError.
Strptime(raw, sep, named, year_digits) ==
    LET day   == NumVal(raw.d)
        month == IF "name" \in DOMAIN raw.m THEN MonthOfName(raw.m.name)
                 ELSE IF Len(raw.m.num) \in {1, 2} THEN NumVal(raw.m.num)
                 ELSE 0
        yy    == NumVal(raw.y)
        year  == IF year_digits = 4 THEN yy
                 ELSE IF yy <= 68 THEN 2000 + yy ELSE 1900 + yy
    IN  IF /\ raw.s1 = sep /\ raw.s2 = sep
           /\ ("name" \in DOMAIN raw.m) = named
           /\ Len(raw.y) = year_digits
           /\ Len(raw.d) \in {1, 2}
           /\ month \in 1..12
           /\ year >= 1
           /\ day >= 1 /\ day <= DaysIn(month, year)
        THEN <<day, month, year>>
        ELSE <<>>

\* The formats of _parse_date, in the order they are tried.
DateFormats ==
    <<[sep |-> "-", named |-> TRUE,  year_digits |-> 2],
      [sep |-> "-", named |-> TRUE,  year_digits |-> 4],
      [sep |-> "/", named |-> TRUE,  year_digits |-> 2],
      [sep |-> "/", named |-> TRUE,  year_digits |-> 4],
      [sep |-> "-", named |-> FALSE, year_digits |-> 2],
      [sep |-> "-", named |-> FALSE, year_digits |-> 4],
      [sep |-> "/", named |-> FALSE, year_digits |-> 2],
      [sep |-> "/", named |-> FALSE, year_digits |-> 4]>>

\* dt.strftime('%d-%b-%Y')
Strftime(dt) ==
    (IF dt[1] < 10 THEN "0" ELSE "") \o NumStr(dt[1]) \o "-" \o MonthAbbr[dt[2]]
    \o "-" \o NumStr(dt[3])

\* _parse_date: the first format that parses the string gives DD-Mon-YYYY; a
\* string that no format parses is returned as it is.
parse_date(raw) ==
    LET ok == {f \in 1..Len(DateFormats) :
                 Strptime(raw, DateFormats[f].sep, DateFormats[f].named,
                          DateFormats[f].year_digits) # <<>>}
    IN  IF ok = {} THEN DateStr(raw)
        ELSE LET f == CHOOSE g \in ok : \A h \in ok : g <= h
             IN  Strftime(Strptime(raw, DateFormats[f].sep, DateFormats[f].named,
                                   DateFormats[f].year_digits))

(***************************************************************************)
(* Texts.  The text extracted from a file is the sequence of its lines, and *)
(* a line is a label and the value that follows it (after one space, when   *)
(* there is a value).  The value of a date label is a date held in its      *)
(* parts, the value of an amount label the characters of an amount string,  *)
(* the value of a number label the characters of the number, any other      *)
(* value a string.  The labels are those of LabelKind; what each regular    *)
(* expression of the program matches in such a text is given by the label   *)
(* sets below.                                                              *)
(***************************************************************************)
LabelKind ==
    [label \in {"Department:", "Purchase Order", "Hello"} |-> "string"]
    @@ [label \in {"Invoice No:", "Invoice Number:", "PO NO:"} |-> "number"]
    @@ [label \in {"PO DATE:"} |-> "date"]
    @@ [label \in {"TOTAL:", "Sub Total:", "Amount:", "Total Amount:",
                   "GRAND TOTAL:", "Net Total:", "Tax:"} |-> "amount"]

\* The value of the line is not empty.
HasValue(line) ==
    IF LabelKind[line.label] = "string" THEN line.value # ""
    ELSE IF LabelKind[line.label] = "date" THEN TRUE
    ELSE line.value # <<>>

\* len() of the value as the text holds it
ValueLen(line) ==
    IF LabelKind[line.label] = "date" THEN Len(DateStr(line.value))
    ELSE Len(line.value)

\* len() of the line: the label, and a space and the value when there is one.
LineLen(line) ==
    Len(line.label) + (IF HasValue(line) THEN 1 + ValueLen(line) ELSE 0)

\* The offset in the text of the first character of line i (lines are joined
\* by one newline).
RECURSIVE LineStart(_, _)
LineStart(text, i) ==
    IF i = 1 THEN 0 ELSE LineStart(text, i - 1) + LineLen(text[i - 1]) + 1

\* phrase in text.lower(): the labels whose lower case holds each phrase.
PhraseLabels ==
    [invoice        |-> {"Invoice No:", "Invoice Number:"},
     invoice_no     |-> {"Invoice No:"},
     purchase_order |-> {"Purchase Order"},
     po_no          |-> {"PO NO:"}]

Has(text, phrase) ==
    \E i \in 1..Len(text) : text[i].label \in PhraseLabels[phrase]

\* The least element of a non-empty set of numbers, and the greatest.
Min(S) == CHOOSE x \in S : \A y \in S : x <= y
Max(S) == CHOOSE x \in S : \A y \in S : x >= y

Letters ==
    {"A", "B", "C", "D", "E", "F", "G", "H", "I", "J", "K", "L", "M", "N", "O",
     "P", "Q", "R", "S", "T", "U", "V", "W", "X", "Y", "Z", "a", "b", "c", "d",
     "e", "f", "g", "h", "i", "j", "k", "l", "m", "n", "o", "p", "q", "r", "s",
     "t", "u", "v", "w", "x", "y", "z"}

\* The longest run of digits that cs starts with.
DigitsPrefix(cs) ==
    SubSeq(cs, 1, Max({n \in 0..Len(cs) : \A i \in 1..n : cs[i] \in Digits}))

\* What (\d+) matches at the start of the value: <<>> for no match.
DigitsCapture(line) ==
    IF DigitsPrefix(line.value) = <<>> THEN <<>>
    ELSE <<Str(DigitsPrefix(line.value))>>

\* What ([A-Z]?\d+), case ignored, matches at the start of the value.
NumberCapture(line) ==
    LET cs == line.value
    IN  IF cs # <<>> /\ cs[1] \in Letters /\ DigitsPrefix(Tail(cs)) # <<>>
        THEN <<cs[1] \o Str(DigitsPrefix(Tail(cs)))>>
        ELSE DigitsCapture(line)

\* What a date or amount group matches: the value, when there is one.
ValueCapture(line) == IF HasValue(line) THEN <<line.value>> ELSE <<>>

\* What the group of a pattern matches in the value of a line.
Capture(group, line) ==
    CASE group = "digits" -> DigitsCapture(line)
      [] group = "number" -> NumberCapture(line)
      [] OTHER            -> ValueCapture(line)

\* Patterns are tried in order and re.search returns the leftmost match: the
\* capture in the first line, in the text, that the first matching pattern
\* matches.  patterns[k] is the set of labels pattern k matches and group
\* the kind of group the patterns end with; <<>> is no match, <<v>> the
\* match v.
FirstMatch(text, patterns, group) ==
    LET lines(k) == {i \in 1..Len(text) :
                        /\ text[i].label \in patterns[k]
                        /\ Capture(group, text[i]) # <<>>}
        ks == {k \in 1..Len(patterns) : lines(k) # {}}
    IN  IF ks = {} THEN <<>> ELSE Capture(group, text[Min(lines(Min(ks)))])

InvoiceNumberPatterns == <<{"Invoice No:"}, {"Invoice Number:"}>>
PoNumberPatterns == <<{"PO NO:"}>>
PoDatePatterns == <<{"PO DATE:"}>>
SubtotalPatterns == <<{"TOTAL:"}, {"Sub Total:"}, {"Amount:", "Total Amount:"}>>
TaxPatterns == <<{"Tax:"}>>
GrandTotalPatterns == <<{"GRAND TOTAL:"}, {"Total Amount:"}, {"Net Total:"}>>
\* (?:Amount|Total)[:\s]+ of parse_po_data: one pattern for all these labels
PoAmountPatterns ==
    <<{"TOTAL:", "Sub Total:", "Amount:", "Total Amount:", "GRAND TOTAL:",
       "Net Total:"}>>

\* The bounds of [\s\S]{0,30} and [\s\S]{0,100}? in the invoice date patterns.
InvoiceToDateGap == 30
InvoiceNoToDateGap == 100

\* The invoice date.  With no "Invoice Date" label in the text, the patterns
\* that match are the third (the word invoice, at most 30 characters, the word
\* Date and a date: the leftmost invoice, and for it the farthest such Date)
\* and the last (Invoice No, digits, at most 100 characters, a date: the
\* leftmost such Invoice No, and for it the nearest date).
InvoiceDateMatch(text) ==
    LET dates == {j \in 1..Len(text) : text[j].label = "PO DATE:"}
        \* the word invoice ends 7 characters into its line, the word DATE
        \* starts 3 characters into its line
        near(i) == {j \in dates : j > i /\
                      (LineStart(text, j) + 3) - (LineStart(text, i) + 7)
                          <= InvoiceToDateGap}
        third == {i \in 1..Len(text) :
                      text[i].label \in PhraseLabels.invoice /\ near(i) # {}}
        \* the digits of the invoice number start 12 characters into their
        \* line, the date starts 9 characters into its line
        after(i) == {j \in dates : j > i /\
                      (LineStart(text, j) + 9)
                      - (LineStart(text, i) + 12 + Len(DigitsPrefix(text[i].value)))
                          <= InvoiceNoToDateGap}
        last_p == {i \in 1..Len(text) :
                      /\ text[i].label = "Invoice No:"
                      /\ DigitsCapture(text[i]) # <<>>
                      /\ after(i) # {}}
    IN  IF third # {} THEN <<text[Max(near(Min(third)))].value>>
        ELSE IF last_p # {} THEN <<text[Min(after(Min(last_p)))].value>>
        ELSE <<>>

\* The letters and spaces each label starts with.
LabelLetters ==
    ("Invoice No:" :> "Invoice No") @@ ("Invoice Number:" :> "Invoice Number")
    @@ ("PO NO:" :> "PO NO") @@ ("PO DATE:" :> "PO DATE")
    @@ ("TOTAL:" :> "TOTAL") @@ ("Sub Total:" :> "Sub Total")
    @@ ("Amount:" :> "Amount") @@ ("Total Amount:" :> "Total Amount")
    @@ ("GRAND TOTAL:" :> "GRAND TOTAL") @@ ("Net Total:" :> "Net Total")
    @@ ("Tax:" :> "Tax") @@ ("Department:" :> "Department")
    @@ ("Purchase Order" :> "Purchase Order") @@ ("Hello" :> "Hello")

\* The letters, spaces and line ends that the text holds from line k on, up
\* to the first other character: one string for each line reached.
RECURSIVE LettersFrom(_, _)
LettersFrom(text, k) ==
    IF k > Len(text) THEN <<>>
    ELSE IF LabelLetters[text[k].label] = text[k].label /\ ~HasValue(text[k])
         THEN <<text[k].label>> \o LettersFrom(text, k + 1)
    ELSE <<LabelLetters[text[k].label]>>

\* "\n".join(parts)
RECURSIVE JoinLines(_)
JoinLines(parts) ==
    IF Len(parts) = 1 THEN parts[1]
    ELSE parts[1] \o "\n" \o JoinLines(Tail(parts))

\* Department[:\s]+([A-Za-z\s]+) and strip(): the value of the first
\* Department line and the letters that follow it over the line ends.
DepartmentMatch(text) ==
    LET ds == {i \in 1..Len(text) : text[i].label = "Department:"}
    IN  IF ds = {} THEN <<>>
        ELSE LET i     == Min(ds)
                 parts == (IF HasValue(text[i]) THEN <<text[i].value>> ELSE <<>>)
                          \o LettersFrom(text, i + 1)
             IN  IF parts = <<>> THEN <<>> ELSE <<JoinLines(parts)>>

\* The dict with key k for the match m, empty for no match.
Found(k, m) == IF m = <<>> THEN <<>> ELSE (k :> m[1])

\* The dates of the matched strings: each match goes through _parse_date.
convert_dates(captures) == [k \in DOMAIN captures |-> parse_date(captures[k])]

\* parse_invoice_data.  The text has no PO/GR table and no GR label, so
\* _parse_table_format and the GR patterns find nothing.  The result is
\* <<data>>, or <<>> for None.
parse_invoice_data(text) ==
    LET strings == Found("invoice_number",
                         FirstMatch(text, InvoiceNumberPatterns, "number"))
                   @@ Found("po_number",
                            FirstMatch(text, PoNumberPatterns, "digits"))
        dates   == Found("invoice_date", InvoiceDateMatch(text))
                   @@ Found("po_date", FirstMatch(text, PoDatePatterns, "value"))
        amounts == Found("subtotal", FirstMatch(text, SubtotalPatterns, "value"))
                   @@ Found("tax", FirstMatch(text, TaxPatterns, "value"))
                   @@ Found("grand_total",
                            FirstMatch(text, GrandTotalPatterns, "value"))
        data    == derive_totals(strings @@ convert_dates(dates)
                                 @@ convert_amounts(amounts))
                   @@ [status |-> "UnPaid"]
    IN  IF DOMAIN data # {} THEN <<data>> ELSE <<>>

\* The keys of the amounts that the patterns of parse_invoice_data matched.
MatchedAmounts(text) ==
    {k \in AmountKeys :
        FirstMatch(text, CASE k = "subtotal" -> SubtotalPatterns
                           [] k = "tax" -> TaxPatterns
                           [] OTHER -> GrandTotalPatterns, "value") # <<>>}

\* The amount of the matched string, through _parse_amount.
convert_po_amount(captures) ==
    [k \in DOMAIN captures |-> parse_amount(captures[k])]

\* parse_po_data: <<data>>, or <<>> for None.
parse_po_data(text) ==
    LET dept == DepartmentMatch(text)
        data == Found("po_number", FirstMatch(text, PoNumberPatterns, "digits"))
                @@ convert_dates(Found("po_date",
                                       FirstMatch(text, PoDatePatterns, "value")))
                @@ convert_po_amount(Found("po_amount",
                                           FirstMatch(text, PoAmountPatterns, "value")))
                @@ [department |-> IF dept # <<>> THEN dept[1] ELSE "N/A"]
    IN  IF "po_number" \in DOMAIN data THEN <<data>> ELSE <<>>

(***************************************************************************)
(* The record store.                                                       *)
(***************************************************************************)
\* A variant that forgets the header row: the first record gets serial 0.
get_next_serial_number_zero_based(ws) ==
    LET max_row == Len(ws) + 1
    IN  max_row - 1

get_next_serial_number(ws) ==
    LET max_row == Len(ws) + 1
    IN  IF max_row = 1 THEN 1 ELSE max_row

\* A variant that keeps scanning and returns the last matching row.
lookup_po_details_last_match(ws, po_number) ==
    LET hits == {i \in 1..Len(ws) : ws[i].po_number = po_number}
    IN  IF hits = {} THEN <<None, None>>
        ELSE LET i == CHOOSE j \in hits : \A k \in hits : j >= k
             IN  <<ws[i].po_date, ws[i].department>>

\* The first row whose PO Number equals po_number gives (PO Date, Department).
lookup_po_details(ws, po_number) ==
    LET hits == {i \in 1..Len(ws) : ws[i].po_number = po_number}
    IN  IF hits = {} THEN <<None, None>>
        ELSE LET i == CHOOSE j \in hits : \A k \in hits : j <= k
             IN  <<ws[i].po_date, ws[i].department>>

add_po_record(ws, po_data) ==
    Append(ws, [serial     |-> get_next_serial_number(ws),
                po_number  |-> Get(po_data, "po_number", ""),
                po_date    |-> Get(po_data, "po_date", ""),
                po_amount  |-> Get(po_data, "po_amount", 0),
                department |-> Get(po_data, "department", "N/A")])

\* A variant that compares the wrong column (row[3], the PO Number).
invoice_exists_wrong_column(ws, invoice_number) ==
    \E i \in 1..Len(ws) : ws[i].po_number = invoice_number

invoice_exists(ws, invoice_number) ==
    \E i \in 1..Len(ws) : ws[i].invoice_number = invoice_number

\* A variant without the duplicate check.
is_duplicate_never(inv_ws, invoice_data) == FALSE

\* The duplicate check that opens add_invoice_record.
is_duplicate(inv_ws, invoice_data) ==
    LET invoice_number == Get(invoice_data, "invoice_number", "")
    IN  Truthy(invoice_number) /\ invoice_exists(inv_ws, invoice_number)

\* A variant that never creates the missing PO.
needs_stub_never(po_ws, invoice_data) == FALSE

\* Whether add_invoice_record creates a PO: the invoice names a PO number and
\* the lookup gave no PO Date.
needs_stub(po_ws, invoice_data) ==
    LET po_number == Get(invoice_data, "po_number", "")
    IN  Truthy(po_number) /\ ~Truthy(lookup_po_details(po_ws, po_number)[1])

\* A variant that leaves the invoice's PO date out of the PO it creates.
StubPoNoDate(invoice_data) ==
    [po_number  |-> Get(invoice_data, "po_number", ""),
     po_date    |-> "",
     po_amount  |-> 0,
     department |-> "N/A"]

\* The PO that add_invoice_record creates from the invoice's own data.
StubPo(invoice_data) ==
    [po_number  |-> Get(invoice_data, "po_number", ""),
     po_date    |-> Get(invoice_data, "po_date", ""),
     po_amount  |-> 0,
     department |-> "N/A"]

\* add_invoice_record on the two sheets: the sheets after the call, and
\* whether the call returned at the duplicate check.
add_invoice_record(po_ws, inv_ws, invoice_data) ==
    IF is_duplicate(inv_ws, invoice_data)
    THEN [po |-> po_ws, inv |-> inv_ws, skipped |-> TRUE]
    ELSE
    LET serial    == get_next_serial_number(inv_ws)
        po_number == Get(invoice_data, "po_number", "")
        po_ws2    == IF needs_stub(po_ws, invoice_data)
                     THEN add_po_record(po_ws, StubPo(invoice_data))
                     ELSE po_ws
        \* the first lookup when no PO was created, the second one otherwise
        found     == IF Truthy(po_number)
                     THEN lookup_po_details(po_ws2, po_number)
                     ELSE <<None, None>>
        po_date    == Or(found[1], Get(invoice_data, "po_date", ""))
        department == Or(found[2], "N/A")
        row == [serial         |-> serial,
                invoice_number |-> Get(invoice_data, "invoice_number", ""),
                invoice_date   |-> Get(invoice_data, "invoice_date", ""),
                po_number      |-> po_number,
                po_date        |-> po_date,
                department     |-> department,
                gr_id          |-> Get(invoice_data, "gr_id", ""),
                gr_date        |-> Get(invoice_data, "gr_date", ""),
                subtotal       |-> Get(invoice_data, "subtotal", 0),
                tax            |-> Get(invoice_data, "tax", 0),
                grand_total    |-> Get(invoice_data, "grand_total", 0),
                status         |-> Get(invoice_data, "status", "UnPaid")]
    IN  [po |-> po_ws2, inv |-> Append(inv_ws, row), skipped |-> FALSE]

(***************************************************************************)
(* process_file and process_all_files.  A file is the text that             *)
(* extract_text_from_pdf or extract_text_from_image returns for it (the     *)
(* empty text when nothing could be read) and whether writing the debug     *)
(* copy of the text raises.  The files come from glob over the supported    *)
(* extensions, so the unsupported-format return of process_file is not      *)
(* taken.  The logger and the error ledger (_log_error) are taken to work:  *)
(* what they write is the result recorded in outcome.                       *)
(***************************************************************************)
is_invoice(text) == Has(text, "invoice") /\ Has(text, "invoice_no")

is_po(text) ==
    Has(text, "purchase_order") \/ (Has(text, "po_no") /\ ~Has(text, "invoice"))

\* A variant that tests is_po before is_invoice.
classify_po_first(text) ==
    IF is_po(text) THEN "PurchaseOrder"
    ELSE IF is_invoice(text) THEN "Invoice"
    ELSE "Unknown"

\* The branch process_file takes: if is_invoice, elif is_po, else.
classify(text) ==
    IF is_invoice(text) THEN "Invoice"
    ELSE IF is_po(text) THEN "PurchaseOrder"
    ELSE "Unknown"

\* What process_file reports when it touches neither sheet.
Untouched(po_ws, inv_ws, doc_type, result) ==
    [po |-> po_ws, inv |-> inv_ws, doc_type |-> doc_type, result |-> result,
     serial |-> 0, call |-> [op |-> "none"], raised |-> FALSE]

\* The invoice branch once add_invoice_record has returned r.
InvoiceAdded(r, invoice_data) ==
    [po |-> r.po, inv |-> r.inv, doc_type |-> "Invoice",
     result |-> IF r.skipped THEN "SkippedDuplicate" ELSE "Inserted",
     serial |-> IF r.skipped THEN 0 ELSE Len(r.inv),
     call |-> [op |-> "add_invoice_record", data |-> invoice_data,
               skipped |-> r.skipped],
     raised |-> FALSE]

\* if invoice_data: add_invoice_record; else: log the error.
invoice_branch(po_ws, inv_ws, invoice_data) ==
    IF invoice_data # <<>>
    THEN InvoiceAdded(add_invoice_record(po_ws, inv_ws, invoice_data[1]),
                      invoice_data[1])
    ELSE Untouched(po_ws, inv_ws, "Invoice", "RejectedUnparsed")

\* if po_data: add_po_record; else: log the error.
po_branch(po_ws, inv_ws, po_data) ==
    IF po_data # <<>>
    THEN [po |-> add_po_record(po_ws, po_data[1]), inv |-> inv_ws,
          doc_type |-> "PurchaseOrder", result |-> "Inserted",
          serial |-> Len(po_ws) + 1,
          call |-> [op |-> "add_po_record", data |-> po_data[1]],
          raised |-> FALSE]
    ELSE Untouched(po_ws, inv_ws, "PurchaseOrder", "RejectedUnparsed")

\* The branches of process_file, by the type of the document.
branch(doc_type, po_ws, inv_ws, text) ==
    IF doc_type = "Invoice"
    THEN invoice_branch(po_ws, inv_ws, parse_invoice_data(text))
    ELSE IF doc_type = "PurchaseOrder"
    THEN po_branch(po_ws, inv_ws, parse_po_data(text))
    ELSE Untouched(po_ws, inv_ws, "Unknown", "RejectedUnknownType")

\* The body of process_file, inside its try block.
process_text(po_ws, inv_ws, text) == branch(classify(text), po_ws, inv_ws, text)

\* A variant without the except clause: the exception leaves process_file.
process_file_uncaught(po_ws, inv_ws, file) ==
    IF file.text = <<>>
    THEN Untouched(po_ws, inv_ws, "NotClassified", "ExtractionFailure")
    ELSE IF file.write_fails
    THEN [Untouched(po_ws, inv_ws, "NotClassified", "Error") EXCEPT !.raised = TRUE]
    ELSE process_text(po_ws, inv_ws, file.text)

\* process_file: no text is an error of its own; an exception raised in the
\* try block (here, by writing the debug copy) is caught, logged and ends the
\* file.
process_file(po_ws, inv_ws, file) ==
    IF file.text = <<>>
    THEN Untouched(po_ws, inv_ws, "NotClassified", "ExtractionFailure")
    ELSE IF file.write_fails
    THEN Untouched(po_ws, inv_ws, "NotClassified", "Error")
    ELSE process_text(po_ws, inv_ws, file.text)

NotSaved == [saved |-> FALSE]

\* process_all_files returns at once when the folder holds no file.
StartBatch ==
    /\ pc = "start"
    /\ pc' = IF files = <<>> THEN "returned" ELSE "loop"
    /\ UNCHANGED <<store, doc, files, done, outcome, excel_file, run>>

\* The state after process_file has returned r.
Processed(r) ==
    /\ po_sheet' = r.po
    /\ inv_sheet' = r.inv
    /\ last' = r.call
    /\ outcome' = Append(outcome, [doc_type |-> r.doc_type,
                                   result |-> r.result, serial |-> r.serial])
    /\ done' = done + 1
    /\ pc' = IF r.raised THEN "aborted" ELSE "loop"

\* One turn of the loop over the files: process_file on the next file.  An
\* exception that left process_file would end process_all_files.
ProcessFile ==
    /\ pc = "loop"
    /\ done < Len(files)
    /\ Processed(process_file(po_sheet, inv_sheet, files[done + 1]))
    /\ UNCHANGED <<doc, files, excel_file, run>>

\* save_excel after the loop; a failure to save is caught and logged.
SaveExcel ==
    /\ pc = "loop"
    /\ done = Len(files)
    /\ \E ok \in BOOLEAN :
          excel_file' = IF ok THEN [saved |-> TRUE, po |-> po_sheet, inv |-> inv_sheet]
                        ELSE excel_file
    /\ pc' = "done"
    /\ UNCHANGED <<store, doc, files, done, outcome, run>>

NextBatch == StartBatch \/ ProcessFile \/ SaveExcel

\* The lines of the texts of the model.
Line(label, value) == [label |-> label, value |-> value]

RawDate(d, s1, m, s2, y) == [d |-> d, s1 |-> s1, m |-> m, s2 |-> s2, y |-> y]

LineVocab ==
    {Line("Invoice No:", <<"A", "1", "0", "0", "1">>),
     Line("Invoice No:", <<"1", "0", "0", "0", "2">>),
     Line("Invoice No:", <<>>),
     Line("Invoice Number:", <<"A", "1", "0", "0", "1">>),
     Line("PO NO:", <<"9", "9", "9", "9">>),
     Line("PO DATE:", RawDate(<<"0", "1">>, "-", [name |-> "jAn"], "-", <<"2", "4">>)),
     Line("TOTAL:", <<"1", ",", "0", "0", "0", ".", "0", "0">>),
     Line("TOTAL:", <<",">>),
     Line("GRAND TOTAL:", <<"5", "0", "0">>),
     Line("Tax:", <<"1", "2">>),
     Line("Department:", "Finance"),
     Line("Purchase Order", ""),
     Line("Hello", ""),
     Line("Sub Total:", <<"0", ".", "0", "5">>),
     Line("Total Amount:", <<"5", ",", "5">>),
     Line("PO DATE:", RawDate(<<"3", "1">>, "/", [num |-> <<"2">>], "/",
                              <<"2", "0", "2", "4">>))}

Texts == SeqsUpTo(LineVocab, MaxLines)

\* One file in the folder, with any text of up to MaxLines lines.
InitDoc ==
    /\ po_sheet = <<>>
    /\ inv_sheet = <<>>
    /\ last = [op |-> "none"]
    /\ doc = [stage |-> "none"]
    /\ files \in {<<[text |-> t, write_fails |-> FALSE]>> : t \in Texts}
    /\ done = 0
    /\ outcome = <<>>
    /\ pc = "start"
    /\ excel_file = NotSaved
    /\ run = 1

SpecDoc == InitDoc /\ [][NextBatch]_vars

\* The texts of the files of a batch.
BatchTexts ==
    {<<>>,
     <<Line("Hello", "")>>,
     <<Line("Purchase Order", "")>>,
     <<Line("Invoice No:", <<>>)>>,
     <<Line("Purchase Order", ""), Line("PO NO:", <<"9", "9", "9", "9">>),
       Line("Department:", "Finance")>>,
     <<Line("Invoice No:", <<"A", "1", "0", "0", "1">>),
       Line("PO NO:", <<"9", "9", "9", "9">>),
       Line("TOTAL:", <<"1", ",", "0", "0", "0", ".", "0", "0">>)>>,
     <<Line("Invoice No:", <<"1", "0", "0", "0", "2">>),
       Line("PO NO:", <<"8", "8", "8", "8">>),
       Line("PO DATE:", RawDate(<<"5">>, "/", [num |-> <<"2">>], "/",
                                <<"2", "0", "2", "4">>))>>}

BatchFiles == {[text |-> t, write_fails |-> w] : t \in BatchTexts, w \in BOOLEAN}

\* Up to MaxFiles files in the folder.
InitBatch ==
    /\ po_sheet = <<>>
    /\ inv_sheet = <<>>
    /\ last = [op |-> "none"]
    /\ doc = [stage |-> "none"]
    /\ files \in SeqsUpTo(BatchFiles, MaxFiles)
    /\ done = 0
    /\ outcome = <<>>
    /\ pc = "start"
    /\ excel_file = NotSaved
    /\ run = 1

\* A turn of the for statement of process_all_files: the next file is taken.
LoopTurn == pc = "loop" /\ done < Len(files) /\ done' = done + 1

\* Nothing in process_all_files waits: it gets to its loop, the loop takes
\* every turn it has (process_file always returns or raises) and save_excel
\* follows the last turn.
Fairness == WF_vars(StartBatch) /\ WF_done(LoopTurn) /\ WF_vars(SaveExcel)

SpecBatch == InitBatch /\ [][NextBatch]_vars /\ Fairness

\* The columns of the two sheets that hold strings.
TextColumns ==
    {"po_number", "po_date", "department", "invoice_number", "invoice_date",
     "gr_id", "gr_date", "status"}

\* openpyxl.load_workbook of a sheet that workbook.save wrote: a cell that
\* held the empty string was written as a cell without a value and is read
\* as None; every other cell is read as it was written.
load_workbook(ws) ==
    [k \in 1..Len(ws) |->
        [f \in DOMAIN ws[k] |->
            IF f \in TextColumns /\ ws[k][f] = "" THEN None ELSE ws[k][f]]]

\* The program run again over the same folder, after a run that saved (or
\* failed to save) or that returned at once: __init__ loads the workbook from
\* self.excel_file when that file exists (it does once a save has succeeded)
\* and makes a workbook with two empty sheets otherwise; then
\* process_all_files starts over.
NewRun ==
    /\ pc \in {"done", "returned"}
    /\ run < MaxRuns
    /\ po_sheet' = IF excel_file.saved THEN load_workbook(excel_file.po) ELSE <<>>
    /\ inv_sheet' = IF excel_file.saved THEN load_workbook(excel_file.inv) ELSE <<>>
    /\ last' = [op |-> "none"]
    /\ done' = 0
    /\ outcome' = <<>>
    /\ pc' = "start"
    /\ run' = run + 1
    /\ UNCHANGED <<doc, files, excel_file>>

NextRerun == NextBatch \/ NewRun

SpecRerun == InitBatch /\ [][NextRerun]_vars

(***************************************************************************)
(* The arguments of the calls: dicts of the shapes parse_po_data and       *)
(* parse_invoice_data return.                                              *)
(***************************************************************************)
Absent == "<absent>"

\* The dict of the string-valued keys of full that are present.
Present(full) == [k \in {x \in DOMAIN full : full[x] # Absent} |-> full[k]]

PoNumbers == {"9999", "8888"}
InvoiceNumbers == {"A1001", "10002"}
PoSheetDate == "01-Jan-2024"
InvoicePoDate == "05-Feb-2024"

\* What parse_po_data returns: po_number and department always, po_date and
\* po_amount when found.
PoDatas ==
    {[po_number |-> n] @@ rest :
        n \in PoNumbers,
        rest \in {[po_date |-> PoSheetDate, po_amount |-> 50000, department |-> "Finance"],
                  [department |-> "HR"]}}
    \cup {[po_number |-> "8888", po_date |-> PoSheetDate, department |-> ""]}

\* What parse_invoice_data returns: status always, the other keys when found.
InvoiceDatas ==
    {Present([invoice_number |-> i, po_number |-> po[1], po_date |-> po[2],
              status |-> "UnPaid"])
     @@ [subtotal |-> 100000, tax |-> 12000, grand_total |-> 112000] :
        i \in InvoiceNumbers \cup {Absent},
        po \in {<<Absent, Absent>>, <<"9999", InvoicePoDate>>, <<"9999", Absent>>,
                <<"8888", Absent>>}}

(***************************************************************************)
(* The store driven by calls of add_po_record and add_invoice_record.      *)
(***************************************************************************)
Init ==
    /\ po_sheet = <<>>
    /\ inv_sheet = <<>>
    /\ last = [op |-> "none"]
    /\ doc = [stage |-> "none"]
    /\ files = <<>>
    /\ done = 0
    /\ outcome = <<>>
    /\ pc = "calls"
    /\ excel_file = NotSaved
    /\ run = 1

AddPoRecord ==
    \E po_data \in PoDatas :
        /\ Len(po_sheet) < MaxPoRows
        /\ po_sheet' = add_po_record(po_sheet, po_data)
        /\ last' = [op |-> "add_po_record", data |-> po_data]
        /\ UNCHANGED <<inv_sheet, doc, batch>>

AddInvoiceRecord ==
    \E invoice_data \in InvoiceDatas :
        LET r == add_invoice_record(po_sheet, inv_sheet, invoice_data)
        IN  /\ Len(r.po) <= MaxPoRows
            /\ Len(r.inv) <= MaxInvRows
            /\ po_sheet' = r.po
            /\ inv_sheet' = r.inv
            /\ last' = [op |-> "add_invoice_record", data |-> invoice_data,
                        skipped |-> r.skipped]
            /\ UNCHANGED <<doc, batch>>

Next == AddPoRecord \/ AddInvoiceRecord

Spec == Init /\ [][Next]_vars

(***************************************************************************)
(* The amounts of one invoice text: the strings the subtotal, tax and grand  *)
(* total patterns matched, then the fields parse_invoice_data makes of them. *)
(***************************************************************************)
AmountCaptures ==
    {[k \in {x \in AmountKeys : full[x] # <<>>} |-> full[k]] :
        full \in [subtotal    : AmountStrings \cup {<<>>},
                  tax         : OtherAmountStrings \cup {<<>>},
                  grand_total : OtherAmountStrings \cup {<<>>}]}

InitDerive ==
    /\ po_sheet = <<>>
    /\ inv_sheet = <<>>
    /\ last = [op |-> "none"]
    /\ doc \in {[stage |-> "matched", captures |-> c] : c \in AmountCaptures}
    /\ files = <<>>
    /\ done = 0
    /\ outcome = <<>>
    /\ pc = "calls"
    /\ excel_file = NotSaved
    /\ run = 1

DeriveTotals ==
    /\ doc.stage = "matched"
    /\ doc' = [stage |-> "derived", captures |-> doc.captures,
               data |-> derive_totals(convert_amounts(doc.captures))]
    /\ UNCHANGED <<store, batch>>

SpecDerive == InitDerive /\ [][DeriveTotals]_vars

(***************************************************************************)
(* Properties of the record store.                                         *)
(***************************************************************************)
\* The call recorded in last' is add_invoice_record and it gets past the
\* duplicate check in the state before the step.
InsertsInvoice ==
    /\ last'.op = "add_invoice_record"
    /\ LET n == Get(last'.data, "invoice_number", "")
       IN  n = "" \/ \A i \in 1..Len(inv_sheet) : inv_sheet[i].invoice_number # n

\* The rows of ws whose PO Number is po_number.
PoRows(ws, po_number) == {i \in 1..Len(ws) : ws[i].po_number = po_number}

\* C1: no two rows of Invoice_Details share a non-empty invoice number, so a
\* second insert of the same invoice number leaves exactly one row.
C1_UniqueInvoiceNumbers ==
    \A i, j \in 1..Len(inv_sheet) :
        (i # j /\ inv_sheet[i].invoice_number # "")
            => inv_sheet[i].invoice_number # inv_sheet[j].invoice_number

C1_Witness ==
    /\ last.op = "add_invoice_record"
    /\ last.skipped
    /\ Cardinality({i \in 1..Len(inv_sheet) :
          inv_sheet[i].invoice_number = last.data.invoice_number}) = 1
    /\ Len(inv_sheet) = 2

\* C2: add_invoice_record with a non-empty invoice number that is already in
\* Invoice_Details changes neither sheet, whatever PO number the invoice
\* carries.
C2_DuplicateIsNoOp ==
    [][(/\ last'.op = "add_invoice_record"
        /\ Get(last'.data, "invoice_number", "") # ""
        /\ \E i \in 1..Len(inv_sheet) :
              inv_sheet[i].invoice_number = last'.data.invoice_number)
       => (po_sheet' = po_sheet /\ inv_sheet' = inv_sheet)]_vars

C2_Witness ==
    /\ last.op = "add_invoice_record"
    /\ last.skipped
    /\ "po_number" \in DOMAIN last.data
    /\ PoRows(po_sheet, last.data.po_number) = {}

\* C3: every row of Invoice_Details with a non-empty PO number has a row of
\* PO_Details with the same PO number.
C3_InvoicePoExists ==
    \A i \in 1..Len(inv_sheet) :
        inv_sheet[i].po_number # ""
            => PoRows(po_sheet, inv_sheet[i].po_number) # {}

C3_Witness ==
    /\ last.op = "add_invoice_record"
    /\ ~last.skipped
    /\ "po_number" \in DOMAIN last.data
    /\ Len(inv_sheet) = 2
    /\ inv_sheet[1].po_number # ""
    /\ inv_sheet[2].po_number # ""
    /\ inv_sheet[1].po_number # inv_sheet[2].po_number

\* C4: inserting a new invoice whose PO number matches no row of PO_Details
\* appends exactly one PO row with that number, amount 0, department "N/A" and
\* the invoice's own PO date ("" if it has none), and the invoice row carries
\* that row's department and PO date.
C4_StubCreated ==
    [][(/\ InsertsInvoice
        /\ Get(last'.data, "po_number", "") # ""
        /\ PoRows(po_sheet, last'.data.po_number) = {})
       => (/\ po_sheet' = Append(po_sheet,
                  [serial     |-> Len(po_sheet) + 1,
                   po_number  |-> last'.data.po_number,
                   po_date    |-> Get(last'.data, "po_date", ""),
                   po_amount  |-> 0,
                   department |-> "N/A"])
           /\ Len(inv_sheet') = Len(inv_sheet) + 1
           /\ inv_sheet'[Len(inv_sheet')].department = "N/A"
           /\ inv_sheet'[Len(inv_sheet')].po_date = Get(last'.data, "po_date", ""))]_vars

C4_Witness ==
    /\ last.op = "add_invoice_record"
    /\ ~last.skipped
    /\ "po_number" \in DOMAIN last.data
    /\ "po_date" \in DOMAIN last.data
    /\ Len(po_sheet) = 2
    /\ PoRows(po_sheet, last.data.po_number) = {2}
    /\ po_sheet[2].department = "N/A"
    /\ po_sheet[2].po_amount = 0
    /\ po_sheet[2].po_date = last.data.po_date
    /\ inv_sheet[Len(inv_sheet)].po_date = last.data.po_date
    /\ inv_sheet[Len(inv_sheet)].department = "N/A"

\* C5: the k-th row of each sheet carries serial k, and the next serial is 1
\* for an empty sheet and the number of rows plus one otherwise.
C5_SerialsCountRows ==
    /\ \A k \in 1..Len(po_sheet) : po_sheet[k].serial = k
    /\ \A k \in 1..Len(inv_sheet) : inv_sheet[k].serial = k
    /\ get_next_serial_number(po_sheet) = Len(po_sheet) + 1
    /\ get_next_serial_number(inv_sheet) = Len(inv_sheet) + 1

C5_Witness ==
    /\ last.op = "add_invoice_record"
    /\ ~last.skipped
    /\ Len(inv_sheet) = 2
    /\ Len(po_sheet) = 2
    /\ po_sheet[1].department # "N/A"
    /\ po_sheet[2].department = "N/A"
    /\ po_sheet[2].po_number = inv_sheet[2].po_number
    /\ po_sheet[1].po_number # inv_sheet[2].po_number

\* C6: inserting a new invoice whose PO number is in PO_Details stores the
\* department of the first matching PO row when that is non-empty, and that
\* row's PO date when that is non-empty, whatever PO date the invoice has.
C6_FirstMatchingPo ==
    [][(/\ InsertsInvoice
        /\ Get(last'.data, "po_number", "") # ""
        /\ PoRows(po_sheet, last'.data.po_number) # {})
       => LET hits  == PoRows(po_sheet, last'.data.po_number)
              first == po_sheet[CHOOSE j \in hits : \A k \in hits : j <= k]
              row   == inv_sheet'[Len(inv_sheet')]
          IN  /\ Len(inv_sheet') = Len(inv_sheet) + 1
              /\ first.department # "" => row.department = first.department
              /\ first.po_date # "" => row.po_date = first.po_date]_vars

C6_Witness ==
    /\ last.op = "add_invoice_record"
    /\ ~last.skipped
    /\ "po_date" \in DOMAIN last.data
    /\ Len(po_sheet) = 2
    /\ po_sheet[1].po_number = po_sheet[2].po_number
    /\ po_sheet[1].po_number = last.data.po_number
    /\ po_sheet[1].department \notin {"", "N/A"}
    /\ po_sheet[2].department \notin {"", "N/A", po_sheet[1].department}
    /\ po_sheet[1].po_date \notin {"", last.data.po_date}
    /\ inv_sheet[Len(inv_sheet)].department = po_sheet[1].department
    /\ inv_sheet[Len(inv_sheet)].po_date = po_sheet[1].po_date

(***************************************************************************)
(* Properties of the derivation.                                           *)
(***************************************************************************)
\* C7: with a subtotal S matched and neither tax nor grand total matched, the
\* tax is 12% of S rounded to the nearest cent and the grand total is S + tax;
\* with a tax matched and no grand total, the grand total is S + that tax.
C7_DefaultTaxAndTotal ==
    (doc.stage = "derived" /\ "subtotal" \in DOMAIN doc.captures
        /\ "grand_total" \notin DOMAIN doc.captures)
    => LET S == doc.data.subtotal
           t == doc.data.tax
       IN  /\ doc.data.grand_total = S + t
           /\ "tax" \notin DOMAIN doc.captures
                 => (100 * t - 50 <= 12 * S /\ 12 * S <= 100 * t + 50)
           /\ "tax" \in DOMAIN doc.captures
                 => t = parse_amount(doc.captures.tax)

\* A subtotal of 0.05 with nothing else matched: tax 0.01 (0.006 rounded up),
\* grand total 0.06.
C7_Witness ==
    /\ doc.stage = "derived"
    /\ DOMAIN doc.captures = {"subtotal"}
    /\ doc.data.subtotal = 5
    /\ doc.data.tax = 1
    /\ doc.data.grand_total = 6

(***************************************************************************)
(* Properties of process_file and process_all_files.                        *)
(***************************************************************************)
\* File i was an invoice and process_file appended a row for it.
InvoiceInserted(i) ==
    outcome[i].doc_type = "Invoice" /\ outcome[i].result = "Inserted"

\* The tax of file i was computed from the subtotal, not matched in the text.
TaxDefaulted(i) ==
    /\ "subtotal" \in MatchedAmounts(files[i].text)
    /\ "tax" \notin MatchedAmounts(files[i].text)

\* C8, as stated: in every Invoice_Details row made from a text whose tax was
\* defaulted, the grand total is at least the subtotal, whatever amounts the
\* text held.
C8_AsStated ==
    \A i \in 1..Len(outcome) :
        (InvoiceInserted(i) /\ TaxDefaulted(i))
            => inv_sheet[outcome[i].serial].grand_total
                   >= inv_sheet[outcome[i].serial].subtotal

\* C8: in every Invoice_Details row made from a text whose tax was defaulted
\* and in which no grand total was matched, the grand total is the subtotal
\* plus the tax, so at least the subtotal.
C8_GrandTotalAtLeastSubtotal ==
    \A i \in 1..Len(outcome) :
        (InvoiceInserted(i) /\ TaxDefaulted(i)
            /\ "grand_total" \notin MatchedAmounts(files[i].text))
            => LET row == inv_sheet[outcome[i].serial]
               IN  /\ row.grand_total = row.subtotal + row.tax
                   /\ row.grand_total >= row.subtotal

\* An invoice with TOTAL: 1,000.00 and no tax or grand total line: the row
\* holds 1000.00, 120.00 and 1120.00.
C8_Witness ==
    /\ Len(outcome) = 1
    /\ InvoiceInserted(1)
    /\ MatchedAmounts(files[1].text) = {"subtotal"}
    /\ inv_sheet[1].subtotal = 100000
    /\ inv_sheet[1].tax = 12000
    /\ inv_sheet[1].grand_total = 112000

\* C9: the type process_file gives a text is Invoice when the text holds
\* "invoice" and "invoice no", whatever PO phrase it holds; otherwise
\* PurchaseOrder exactly when it holds "purchase order", or "po no" and not
\* "invoice"; otherwise Unknown; and it is always one of the three.
C9_ClassificationPriority ==
    \A i \in 1..Len(outcome) :
        outcome[i].doc_type # "NotClassified"
        => LET text     == files[i].text
               invoice  == Has(text, "invoice") /\ Has(text, "invoice_no")
               order    == \/ Has(text, "purchase_order")
                           \/ (Has(text, "po_no") /\ ~Has(text, "invoice"))
           IN  /\ outcome[i].doc_type \in {"Invoice", "PurchaseOrder", "Unknown"}
               /\ invoice => outcome[i].doc_type = "Invoice"
               /\ (~invoice /\ order) => outcome[i].doc_type = "PurchaseOrder"
               /\ (~invoice /\ ~order) => outcome[i].doc_type = "Unknown"

\* A text with "invoice no", "purchase order" and "po no" is an Invoice.
C9_Witness ==
    /\ Len(outcome) = 1
    /\ Has(files[1].text, "invoice_no")
    /\ Has(files[1].text, "purchase_order")
    /\ Has(files[1].text, "po_no")
    /\ outcome[1].doc_type = "Invoice"

\* The ways process_file ends: a record inserted, a duplicate skipped, a
\* document that could not be parsed, a document of unknown type, and a
\* failure logged for the file (no text extracted, or an exception caught).
TerminalOutcomes ==
    {"Inserted", "SkippedDuplicate", "RejectedUnparsed", "RejectedUnknownType",
     "ExtractionFailure", "Error"}

\* C10: the files are processed in order, one at a time; each processed file
\* has one terminal outcome, which later files never change; and whatever the
\* outcomes, a batch with files gets to save_excel with every file processed.
C10_BatchRunsToSave ==
    /\ [](/\ Len(outcome) = done
          /\ done <= Len(files)
          /\ \A i \in 1..Len(outcome) : outcome[i].result \in TerminalOutcomes)
    /\ [][/\ Len(outcome') \in {Len(outcome), Len(outcome) + 1}
          /\ \A i \in 1..Len(outcome) : outcome'[i] = outcome[i]]_vars
    /\ ((pc = "start" /\ files # <<>>)
            ~> (pc = "done" /\ Len(outcome) = Len(files)))

\* A batch of two files saved after the first file ended in a caught
\* exception and the second one in an inserted record.
C10_Witness ==
    /\ pc = "done"
    /\ Len(files) = 2
    /\ Len(outcome) = 2
    /\ outcome[1].result = "Error"
    /\ outcome[2].result = "Inserted"
    /\ excel_file = [saved |-> TRUE, po |-> po_sheet, inv |-> inv_sheet]

\* No pattern of parse_invoice_data matched in the text: the dict it returns
\* holds the status it sets itself and nothing else.
NoFieldExtracted(text) ==
    \A k \in 1..Len(parse_invoice_data(text)) :
        DOMAIN parse_invoice_data(text)[k] \subseteq {"status"}

\* C11, as stated: a file classified as an invoice in whose text no field was
\* matched ends in RejectedUnparsed and adds no row to Invoice_Details
\* (serial 0: process_file appended nothing for it).
C11_UnparsedInvoiceRejected ==
    \A i \in 1..Len(outcome) :
        (outcome[i].doc_type = "Invoice" /\ NoFieldExtracted(files[i].text))
            => /\ outcome[i].result = "RejectedUnparsed"
               /\ outcome[i].serial = 0

\* C12, as stated: when the files of a run are processed again in a later run
\* that starts from the workbook the earlier run saved, the two sheets are,
\* after the last file, exactly as that run loaded them.
C12_RerunLeavesStore ==
    (run > 1 /\ excel_file.saved /\ pc = "loop" /\ done = Len(files))
        => /\ po_sheet = load_workbook(excel_file.po)
           /\ inv_sheet = load_workbook(excel_file.inv)

\* C13, as stated: inserting a new invoice whose PO number some row of
\* PO_Details already has, whatever the PO date of that row, leaves PO_Details
\* unchanged.
C13_NoStubWhenPoExists ==
    [][(/\ InsertsInvoice
        /\ Get(last'.data, "po_number", "") # ""
        /\ PoRows(po_sheet, last'.data.po_number) # {})
       => po_sheet' = po_sheet]_vars

\* C14, as stated: in every Invoice_Details row made from a text in which no
\* grand total was matched, the grand total is the subtotal plus the tax, also
\* when the text held a tax and no subtotal (stored as 0).
C14_GrandTotalIsSum ==
    \A i \in 1..Len(outcome) :
        (InvoiceInserted(i) /\ "grand_total" \notin MatchedAmounts(files[i].text))
            => inv_sheet[outcome[i].serial].grand_total
                   = inv_sheet[outcome[i].serial].subtotal
                         + inv_sheet[outcome[i].serial].tax

=============================================================================
